---- MODULE Spec2Model ----
(***************************************************************************)
(* Ted's Operations Dashboard (dashboard.py): the loader, the four grouped *)
(* aggregates, the CSV export, the dashboard rendering and the __main__    *)
(* sequence, as a state machine over the data file, the reports directory  *)
(* and the console.                                                        *)
(*                                                                         *)
(* Numbers.  A revenue in the input is a whole number of thousandths of    *)
(* the currency unit, one digit more than .round(2) keeps.  A value that   *)
(* the code rounds is held in hundredths; a value that it does not round   *)
(* stays in thousandths.  Appointments are whole numbers.                  *)
(*                                                                         *)
(* A DataFrame is a bag of Records: a function from the distinct rows to   *)
(* the number of times each occurs.  No aggregate of the program depends   *)
(* on the order of the rows.                                               *)
(***************************************************************************)
EXTENDS Integers, Sequences, FiniteSets

\* ---------------------------------------------------------------- bounds
\* Distinct rows in a generated DataFrame.
MaxKinds == 3
\* The multiplicity of a row that occurs "many" times.
BigCount == 250
\* Runs of the program in one behaviour.
MaxRuns == 2
\* Clock readings in one behaviour, and readings per clock second.
MaxClock == 3
TicksPerSecond == 2

\* ------------------------------------------------------------- constants
\* .round(2)
Decimals == 2

RECURSIVE Pow10(_)
Pow10(n) == IF n = 0 THEN 1 ELSE 10 * Pow10(n - 1)

\* Hundredths per unit, and input thousandths per hundredth.
Scale == Pow10(Decimals)
InputPerScale == Pow10(Decimals + 1) \div Scale

\* ------------------------------------------------------------ the input
AllColumns == {"date", "branch", "hour", "appointments", "revenue", "service_type"}

Rec(d, b, h, a, r, s) ==
    [date |-> d, branch |-> b, hour |-> h, appointments |-> a, revenue |-> r,
     service_type |-> s]

\* Labels in lexicographic order (branch and service_type values).
Labels == <<"A", "B", "X", "Y">>

LabelRank(l) == CHOOSE i \in 1..Len(Labels) : Labels[i] = l

\* The sort order of a column's values: labels lexicographic, numbers numeric.
KeyRank(col, v) == IF col \in {"branch", "service_type"} THEN LabelRank(v) ELSE v

EmptyFrame == [r \in {} |-> 0]

\* ------------------------------------------------------------ arithmetic
\* A rounding that truncates.
RoundDown(n, d) == n \div d

\* n / d rounded to the nearest whole number, halves to the even neighbour
\* (numpy's rounding), for n >= 0 and d > 0.
RoundDiv(n, d) ==
    LET q == n \div d
        r == n % d
    IN  IF 2 * r < d THEN q
        ELSE IF 2 * r > d THEN q + 1
        ELSE IF q % 2 = 0 THEN q ELSE q + 1

RECURSIVE SumOver(_, _, _)
\* The sum of a column over the rows R of df, each counted as often as it occurs.
SumOver(df, R, col) ==
    IF R = {} THEN 0
    ELSE LET r == CHOOSE x \in R : TRUE
         IN  df[r] * r[col] + SumOver(df, R \ {r}, col)

RECURSIVE CountOver(_, _)
CountOver(df, R) ==
    IF R = {} THEN 0
    ELSE LET r == CHOOSE x \in R : TRUE
         IN  df[r] + CountOver(df, R \ {r})

\* len(df), df[col].sum()
FrameLen(df) == CountOver(df, DOMAIN df)
ColumnSum(df, col) == SumOver(df, DOMAIN df, col)

\* ---------------------------------------------------------------- groupby
RECURSIVE SortedKeys(_, _)
\* The values S of a column as a sequence in ascending order.
SortedKeys(S, col) ==
    IF S = {} THEN <<>>
    ELSE LET k == CHOOSE x \in S : \A y \in S : KeyRank(col, x) <= KeyRank(col, y)
         IN  <<k>> \o SortedKeys(S \ {k}, col)

\* A groupby that loses the last key.
GroupKeysDropLast(df, col) ==
    LET keys == SortedKeys({r[col] : r \in DOMAIN df}, col)
    IN  SubSeq(keys, 1, Len(keys) - 1)

\* df.groupby(col): the distinct values of the column, ascending, and the rows
\* of each group.
GroupKeys(df, col) == SortedKeys({r[col] : r \in DOMAIN df}, col)
Group(df, col, k) == {r \in DOMAIN df : r[col] = k}

\* The "sum" and "mean" reducers of .agg; groups are never empty.
AggSum(df, R, col) == SumOver(df, R, col)
\* mean of revenue (thousandths), rounded to hundredths
MeanRevenueRounded(df, R) ==
    RoundDiv(SumOver(df, R, "revenue"), InputPerScale * CountOver(df, R))
\* The "sum" reducer where "mean" is meant.
SumAppointmentsRounded(df, R) == Scale * SumOver(df, R, "appointments")

\* mean of appointments (whole numbers), rounded to hundredths
MeanAppointmentsRounded(df, R) ==
    RoundDiv(Scale * SumOver(df, R, "appointments"), CountOver(df, R))

\* -------------------------------------------------------------- sort_values
RowOrders(n) ==
    {p \in [1..n -> 1..n] : \A i, j \in 1..n : p[i] = p[j] => i = j}

\* sort_values(col, ascending=False) with the default kind="quicksort", which
\* is not a stable sort: every reordering of the rows in which the column does
\* not increase is a possible result.
sort_values(t, col) ==
    {[i \in 1..Len(t) |-> t[p[i]]] : p \in
        {q \in RowOrders(Len(t)) :
            \A i \in 1..(Len(t) - 1) : t[q[i]][col] >= t[q[i + 1]][col]}}

\* ------------------------------------------------------------- aggregates
\* total_revenue / total_appointments of two columns already rounded, then
\* .round(2): float division gives NaN for 0/0 and inf for x/0 with x > 0.
RevenuePerAppointment(total_revenue, total_appointments) ==
    IF total_appointments = 0
    THEN IF total_revenue = 0 THEN [kind |-> "nan", value |-> 0]
                              ELSE [kind |-> "inf", value |-> 0]
    ELSE [kind |-> "num", value |-> RoundDiv(total_revenue, total_appointments)]

BranchSummaryRow(df, b) ==
    LET R == Group(df, "branch", b)
        ta == AggSum(df, R, "appointments")
        tr == RoundDiv(AggSum(df, R, "revenue"), InputPerScale)
    IN  [key |-> b,
         total_appointments |-> ta,
         total_revenue |-> tr,
         avg_daily_revenue |-> MeanRevenueRounded(df, R),
         revenue_per_appointment |-> RevenuePerAppointment(tr, ta)]

\* The possible results of branch_summary(df). Money columns in hundredths.
branch_summary(df) ==
    LET keys == GroupKeys(df, "branch")
    IN  sort_values([i \in 1..Len(keys) |-> BranchSummaryRow(df, keys[i])],
                    "total_revenue")

\* peak_hours(df). Both columns in hundredths.
peak_hours(df) ==
    LET keys == GroupKeys(df, "hour")
    IN  [i \in 1..Len(keys) |->
            LET R == Group(df, "hour", keys[i])
            IN  [key |-> keys[i],
                 avg_appointments |-> MeanAppointmentsRounded(df, R),
                 avg_revenue |-> MeanRevenueRounded(df, R)]]

\* The possible results of service_breakdown(df). total_revenue in thousandths.
service_breakdown(df) ==
    LET keys == GroupKeys(df, "service_type")
    IN  sort_values([i \in 1..Len(keys) |->
            LET R == Group(df, "service_type", keys[i])
            IN  [key |-> keys[i],
                 total_revenue |-> AggSum(df, R, "revenue"),
                 total_appointments |-> AggSum(df, R, "appointments")]],
            "total_revenue")

\* daily_trend(df). daily_revenue in thousandths.
daily_trend(df) ==
    LET keys == GroupKeys(df, "date")
    IN  [i \in 1..Len(keys) |->
            LET R == Group(df, "date", keys[i])
            IN  [key |-> keys[i],
                 daily_revenue |-> AggSum(df, R, "revenue"),
                 daily_appointments |-> AggSum(df, R, "appointments")]]

\* An idxmax that answers with a made-up key on an empty column.
idxmaxNoRaise(t, col) ==
    IF Len(t) = 0 THEN [raised |-> FALSE, key |-> 0]
    ELSE LET i == CHOOSE j \in 1..Len(t) : \A k \in 1..Len(t) : t[j][col] >= t[k][col]
         IN  [raised |-> FALSE, key |-> t[i].key]

\* Series.idxmax(): the key of the first row holding the maximum of the column;
\* it raises ValueError on an empty column.
idxmax(t, col) ==
    IF Len(t) = 0 THEN [raised |-> TRUE, key |-> 0]
    ELSE LET i == CHOOSE j \in 1..Len(t) :
                     /\ \A k \in 1..Len(t) : t[j][col] >= t[k][col]
                     /\ \A k \in 1..(j - 1) : t[k][col] < t[j][col]
         IN  [raised |-> FALSE, key |-> t[i].key]

\* ----------------------------------------------------------------- inputs
\* Rows of generated DataFrames: every branch and hour with each of these
\* (appointments, revenue) pairs.  The service type follows the amount and
\* the date follows the branch and hour, which keeps the pool at 16 rows.
PoolAmounts == {<<0, 0>>, <<0, 1000>>, <<1, 4>>, <<2, 1000>>}

RecordPool ==
    {Rec(IF b = "A" THEN (IF h = 9 THEN 1 ELSE 2) ELSE (IF h = 9 THEN 2 ELSE 3),
         b, h, a[1], a[2], IF a[1] = 1 THEN "Y" ELSE "X") :
        b \in {"A", "B"}, h \in {9, 14}, a \in PoolAmounts}

\* Every DataFrame of at most MaxKinds distinct pool rows, each occurring once
\* or BigCount times.
Frames ==
    UNION {[K -> {1, BigCount}] : K \in {S \in SUBSET RecordPool : Cardinality(S) <= MaxKinds}}

\* The worked example of three records: revenues 100, 50 and 200.
ExampleFrame ==
    [r \in {Rec(1, "A", 9, 2, 100000, "X"), Rec(1, "A", 9, 1, 50000, "Y"),
            Rec(2, "B", 14, 4, 200000, "X")} |-> 1]

\* Two branches with the same revenue.
TieFrame ==
    [r \in {Rec(1, "A", 9, 2, 100000, "X"), Rec(2, "B", 14, 4, 100000, "Y")} |-> 1]

\* data/sample_data.csv: absent, or a header and rows.
AbsentFile == [exists |-> FALSE, columns |-> {}, rows |-> EmptyFrame]
CsvFile(cols, rows) == [exists |-> TRUE, columns |-> cols, rows |-> rows]

\* Inputs of the pipeline runs: no file, a complete file, a file lacking one column.
RunInputs ==
    {AbsentFile}
    \cup {CsvFile(AllColumns, f) : f \in {EmptyFrame, ExampleFrame, TieFrame}}
    \cup {CsvFile(AllColumns \ {c}, ExampleFrame) : c \in AllColumns}

\* Inputs of the aggregates: every generated frame and the worked example.
AggInputs == {CsvFile(AllColumns, f) : f \in Frames \cup {ExampleFrame}}

\* ------------------------------------------------------------------ state
VARIABLES
    dataFile,   \* data/sample_data.csv
    dirExists,  \* whether the directory reports/ exists
    csv,        \* reports/*.csv: file name -> the table it holds
    png,        \* reports/dashboard_<timestamp>.png: timestamp -> the figure
    now,        \* the clock, in ticks
    runs,       \* runs of the program started so far
    pc,         \* the statement the running process executes next
    df,         \* the loaded DataFrame of the running process
    console,    \* what the running process has printed
    error,      \* the exception that ended the running process
    written,    \* what the running process has created in reports/ (history)
    saves       \* the clock reading of every savefig so far (history)

vars == <<dataFile, dirExists, csv, png, now, runs, pc, df, console, error,
          written, saves>>

NoFrame == [columns |-> {}, rows |-> EmptyFrame, loaded |-> FALSE]

NothingWritten == [dir |-> FALSE, csv |-> {}, png |-> {}]

\* __main__ with the rendering before the export.
MainSequenceRenderFirst ==
    <<"load_data", "branch_summary", "peak_hours", "service_breakdown",
      "generate_dashboard", "export_csv_reports">>

\* The statements of __main__ in order; each names the function it calls.
MainSequence ==
    <<"load_data", "branch_summary", "peak_hours", "service_breakdown",
      "export_csv_reports", "generate_dashboard">>

\* The statement after s, or "done" after the last one.
After(s) ==
    LET i == CHOOSE j \in 1..Len(MainSequence) : MainSequence[j] = s
    IN  IF i = Len(MainSequence) THEN "done" ELSE MainSequence[i + 1]

\* The columns each aggregate reads; a missing one raises KeyError.
BranchSummaryColumns == {"branch", "appointments", "revenue"}
PeakHoursColumns == {"hour", "appointments", "revenue"}
ServiceBreakdownColumns == {"service_type", "revenue", "appointments"}
DailyTrendColumns == {"date", "revenue", "appointments"}

\* An export that writes the Daily Trend too.
ExportedTablesWithTrend ==
    <<"branch_summary.csv", "peak_hours.csv", "service_breakdown.csv", "daily_trend.csv">>

\* The files export_csv_reports writes, in the order it writes them.
ExportedTables == <<"branch_summary.csv", "peak_hours.csv", "service_breakdown.csv">>

\* The columns the table of a report file reads.
ReportColumns(name) ==
    CASE name = "branch_summary.csv" -> BranchSummaryColumns
      [] name = "peak_hours.csv" -> PeakHoursColumns
      [] name = "service_breakdown.csv" -> ServiceBreakdownColumns
      [] name = "daily_trend.csv" -> DailyTrendColumns

\* The table a report file receives, bs and sb being the results of the calls
\* of branch_summary and service_breakdown.
ReportTable(name, rows, bs, sb) ==
    CASE name = "branch_summary.csv" -> bs
      [] name = "peak_hours.csv" -> peak_hours(rows)
      [] name = "service_breakdown.csv" -> sb
      [] name = "daily_trend.csv" -> daily_trend(rows)

\* A timestamp without the seconds.
TimestampMinutes(t) == t \div (2 * TicksPerSecond)

\* strftime("%Y%m%d_%H%M%S") of a clock reading: whole seconds.
Timestamp(t) == t \div TicksPerSecond

\* pd.read_csv(filepath, parse_dates=["date"]) raises for a missing file and
\* for a file without the date column; otherwise it returns the rows.
LoadError(f) ==
    IF ~f.exists THEN "FileNotFoundError"
    ELSE IF "date" \notin f.columns THEN "ValueError"
    ELSE "none"

\* An uncaught exception ends the process.
Raise(e) == pc' = "aborted" /\ error' = e

\* A fresh checkout: no reports directory; the first process is at module load.
InitRun ==
    /\ dirExists = FALSE
    /\ csv = [n \in {} |-> <<>>]
    /\ png = [t \in {} |-> <<>>]
    /\ runs = 1
    /\ pc = "import"
    /\ df = NoFrame
    /\ console = <<>>
    /\ error = "none"
    /\ written = NothingWritten
    /\ saves = <<>>

Init == dataFile \in RunInputs /\ now = 0 /\ InitRun

InitAgg == dataFile \in AggInputs /\ now = MaxClock - 1 /\ InitRun

\* Module load: os.makedirs(OUTPUT_DIR, exist_ok=True), then __main__ starts.
ModuleLoad ==
    /\ pc = "import"
    /\ dirExists' = TRUE
    /\ written' = [written EXCEPT !.dir = ~dirExists]
    /\ pc' = MainSequence[1]
    /\ UNCHANGED <<dataFile, csv, png, now, runs, df, console, error, saves>>

\* df = load_data(DATA_FILE)
LoadData ==
    /\ pc = "load_data"
    /\ IF LoadError(dataFile) # "none"
       THEN /\ Raise(LoadError(dataFile))
            /\ UNCHANGED <<df, console>>
       ELSE /\ df' = [columns |-> dataFile.columns, rows |-> dataFile.rows,
                      loaded |-> TRUE]
            /\ console' = Append(console, [line |-> "Loaded",
                                           value |-> FrameLen(dataFile.rows)])
            /\ pc' = After("load_data")
            /\ UNCHANGED error
    /\ UNCHANGED <<dataFile, dirExists, csv, png, now, runs, written, saves>>

\* print(f(df).to_string()) for one aggregate: its possible tables are Tables.
PrintTable(stmt, title, columns, Tables) ==
    /\ pc = stmt
    /\ IF ~df.loaded THEN Raise("NameError") /\ UNCHANGED console
       ELSE IF ~(columns \subseteq df.columns)
       THEN Raise("KeyError") /\ UNCHANGED console
       ELSE /\ \E t \in Tables :
                console' = Append(console, [line |-> title, value |-> t])
            /\ pc' = After(stmt)
            /\ UNCHANGED error
    /\ UNCHANGED <<dataFile, dirExists, csv, png, now, runs, df, written, saves>>

PrintBranchSummary ==
    PrintTable("branch_summary", "Branch Summary", BranchSummaryColumns,
               branch_summary(df.rows))

PrintPeakHours ==
    PrintTable("peak_hours", "Peak Hours", PeakHoursColumns, {peak_hours(df.rows)})

PrintServiceBreakdown ==
    PrintTable("service_breakdown", "Service Breakdown", ServiceBreakdownColumns,
               service_breakdown(df.rows))

\* export_csv_reports(df): one to_csv after the other, each overwriting the
\* file of its name; a KeyError in a later table leaves the earlier files.
ExportCsvReports ==
    /\ pc = "export_csv_reports"
    /\ IF ~df.loaded THEN Raise("NameError") /\ UNCHANGED <<csv, console, written>>
       ELSE IF ~dirExists THEN Raise("OSError") /\ UNCHANGED <<csv, console, written>>
       ELSE LET n == Len(ExportedTables)
                ok(i) == ReportColumns(ExportedTables[i]) \subseteq df.columns
                \* the files written before the first failing table
                k == IF \A i \in 1..n : ok(i) THEN n
                     ELSE (CHOOSE i \in 1..n : ~ok(i) /\ \A j \in 1..(i - 1) : ok(j)) - 1
                names == {ExportedTables[i] : i \in 1..k}
            IN  /\ \E bs \in branch_summary(df.rows), sb \in service_breakdown(df.rows) :
                     csv' = [f \in DOMAIN csv \cup names |->
                                IF f \in names THEN ReportTable(f, df.rows, bs, sb)
                                ELSE csv[f]]
                /\ written' = [written EXCEPT !.csv = @ \cup names]
                /\ IF k < n THEN Raise("KeyError") /\ UNCHANGED console
                   ELSE /\ console' = Append(console, [line |-> "CSV reports exported",
                                                       value |-> k])
                        /\ pc' = After("export_csv_reports")
                        /\ UNCHANGED error
    /\ UNCHANGED <<dataFile, dirExists, png, now, runs, df, saves>>

\* The five panels of the figure: bs, ph, sb, dt as plotted, and the KPI table.
Figure(rows, bs, ph, sb, dt, best_branch, peak_hour) ==
    [bars |-> bs, line |-> ph, pie |-> sb, trend |-> dt,
     kpis |-> [total_rev |-> ColumnSum(rows, "revenue"),
               total_appts |-> ColumnSum(rows, "appointments"),
               best_branch |-> best_branch,
               peak_hour |-> peak_hour,
               branches |-> Cardinality({r.branch : r \in DOMAIN rows})]]

\* generate_dashboard(df): the four panels, the KPIs (an idxmax that raises
\* ends the call), then savefig under the timestamp of the clock.
GenerateDashboard ==
    /\ pc = "generate_dashboard"
    /\ IF ~df.loaded
       THEN Raise("NameError") /\ UNCHANGED <<png, now, console, written, saves>>
       ELSE IF ~(BranchSummaryColumns \cup PeakHoursColumns \cup ServiceBreakdownColumns
                   \cup DailyTrendColumns \subseteq df.columns)
       THEN Raise("KeyError") /\ UNCHANGED <<png, now, console, written, saves>>
       ELSE \E bs \in branch_summary(df.rows), sb \in service_breakdown(df.rows),
               bs2 \in branch_summary(df.rows) :
              LET ph == peak_hours(df.rows)
                  best_branch == idxmax(bs2, "total_revenue")
                  peak_hour == idxmax(ph, "avg_appointments")
              IN  IF best_branch.raised \/ peak_hour.raised
                  THEN Raise("ValueError")
                       /\ UNCHANGED <<png, now, console, written, saves>>
                  ELSE IF ~dirExists
                  THEN Raise("OSError")
                       /\ UNCHANGED <<png, now, console, written, saves>>
                  ELSE \E t \in (now + 1)..MaxClock :
                         LET fig == Figure(df.rows, bs, ph, sb, daily_trend(df.rows),
                                           best_branch.key, peak_hour.key)
                             ts == Timestamp(t)
                         IN  /\ now' = t
                             /\ png' = [s \in DOMAIN png \cup {ts} |->
                                           IF s = ts THEN fig ELSE png[s]]
                             /\ written' = [written EXCEPT !.png = @ \cup {ts}]
                             /\ saves' = Append(saves, t)
                             /\ console' = Append(console, [line |-> "Dashboard saved",
                                                            value |-> ts])
                             /\ pc' = After("generate_dashboard")
                             /\ UNCHANGED error
    /\ UNCHANGED <<dataFile, dirExists, csv, runs, df>>

\* The program is started again, on the data file as it then is.
Rerun ==
    /\ pc \in {"done", "aborted"}
    /\ runs < MaxRuns
    /\ runs' = runs + 1
    /\ dataFile' \in RunInputs
    /\ pc' = "import"
    /\ df' = NoFrame
    /\ console' = <<>>
    /\ error' = "none"
    /\ written' = NothingWritten
    /\ UNCHANGED <<dirExists, csv, png, now, saves>>

\* One run of the program.
NextRun ==
    \/ ModuleLoad
    \/ LoadData
    \/ PrintBranchSummary
    \/ PrintPeakHours
    \/ PrintServiceBreakdown
    \/ ExportCsvReports
    \/ GenerateDashboard

Next ==
    \/ ModuleLoad
    \/ LoadData
    \/ PrintBranchSummary
    \/ PrintPeakHours
    \/ PrintServiceBreakdown
    \/ ExportCsvReports
    \/ GenerateDashboard
    \/ Rerun

\* Runs of the pipeline, one after the other, over the pipeline inputs.
Spec == Init /\ [][Next]_vars

\* One run over every generated DataFrame.
SpecAgg == InitAgg /\ [][NextRun]_vars

\* ================================================================ properties
\* The tables the running process has produced: printed, exported, plotted.
Printed(title) ==
    {console[i].value : i \in {j \in DOMAIN console : console[j].line = title}}

Exported(name) == IF name \in written.csv THEN {csv[name]} ELSE {}

FiguresOfRun == {png[ts] : ts \in written.png}

BranchSummaries ==
    Printed("Branch Summary") \cup Exported("branch_summary.csv")
        \cup {f.bars : f \in FiguresOfRun}

PeakHoursTables ==
    Printed("Peak Hours") \cup Exported("peak_hours.csv") \cup {f.line : f \in FiguresOfRun}

ServiceBreakdowns ==
    Printed("Service Breakdown") \cup Exported("service_breakdown.csv")
        \cup {f.pie : f \in FiguresOfRun}

DailyTrends == {f.trend : f \in FiguresOfRun}

NonEmptyLoaded == df.loaded /\ DOMAIN df.rows # {}

RECURSIVE TableSum(_, _)
TableSum(t, col) ==
    IF Len(t) = 0 THEN 0 ELSE t[1][col] + TableSum(Tail(t), col)

\* The keys of table t are pairwise distinct and are exactly the values of
\* column col in the loaded records.
KeysExactly(t, col) ==
    /\ \A i, j \in 1..Len(t) : t[i].key = t[j].key => i = j
    /\ {t[i].key : i \in 1..Len(t)} = {r[col] : r \in DOMAIN df.rows}

\* C2: for a non-empty set of records, the keys of every table of the four
\* aggregates are pairwise distinct and are exactly the distinct values of the
\* grouping column in the input; peak_hours has no row for an hour without
\* records.
ThmC2_KeysExact ==
    NonEmptyLoaded =>
        /\ \A t \in BranchSummaries : KeysExactly(t, "branch")
        /\ \A t \in PeakHoursTables : KeysExactly(t, "hour")
        /\ \A t \in ServiceBreakdowns : KeysExactly(t, "service_type")
        /\ \A t \in DailyTrends : KeysExactly(t, "date")

\* A finished run over records of two branches and two service types that all
\* fall in one hour: all four tables exist and the other hour has no row.
WitC2_TwoBranchesOneHour ==
    /\ pc = "done"
    /\ NonEmptyLoaded
    /\ Cardinality({r.branch : r \in DOMAIN df.rows}) = 2
    /\ Cardinality({r.service_type : r \in DOMAIN df.rows}) = 2
    /\ {r.hour : r \in DOMAIN df.rows} = {14}
    /\ DailyTrends # {}
    /\ \A t \in PeakHoursTables : Len(t) = 1

\* C3 as stated: the total_revenue of the rows of branch_summary adds up to
\* the revenue of all records exactly, and so do the appointments.
CexC3_ExactTotals ==
    df.loaded =>
        \A t \in BranchSummaries :
            /\ InputPerScale * TableSum(t, "total_revenue") = ColumnSum(df.rows, "revenue")
            /\ TableSum(t, "total_appointments") = ColumnSum(df.rows, "appointments")

\* C3 amended: the appointments add up exactly; the revenue adds up to
\* rounding, that is within half a hundredth for each row of the table, and
\* exactly when every revenue is a whole number of hundredths.
ThmC3_TotalsToRounding ==
    df.loaded =>
        \A t \in BranchSummaries :
            LET shown == InputPerScale * TableSum(t, "total_revenue")
                raw == ColumnSum(df.rows, "revenue")
            IN  /\ TableSum(t, "total_appointments") = ColumnSum(df.rows, "appointments")
                /\ 2 * (shown - raw) <= InputPerScale * Len(t)
                /\ 2 * (raw - shown) <= InputPerScale * Len(t)
                /\ (\A r \in DOMAIN df.rows : r.revenue % InputPerScale = 0) => shown = raw

\* A printed summary of two branches whose revenue is not a whole number of
\* hundredths and whose rows add up to something else than the records.
WitC3_SubCentRevenue ==
    /\ df.loaded
    /\ \E t \in Printed("Branch Summary") :
          /\ Len(t) = 2
          /\ ColumnSum(df.rows, "appointments") > 0
          /\ InputPerScale * TableSum(t, "total_revenue") # ColumnSum(df.rows, "revenue")

\* C4 as stated: the rows of branch_summary are in descending order of
\* total_revenue, and branches of equal total_revenue are in ascending order
\* of their label.
CexC4_TiesByLabel ==
    df.loaded =>
        \A t \in BranchSummaries :
            \A i \in 1..(Len(t) - 1) :
                /\ t[i].total_revenue >= t[i + 1].total_revenue
                /\ t[i].total_revenue = t[i + 1].total_revenue
                      => LabelRank(t[i].key) < LabelRank(t[i + 1].key)

\* C5 as stated: a branch without appointments has the NaN marker as its
\* revenue_per_appointment, whatever its revenue; any other branch has
\* total_revenue / total_appointments (to the two decimals the column keeps).
CexC5_NaNWithoutAppointments ==
    df.loaded =>
        \A t \in BranchSummaries :
            \A i \in 1..Len(t) :
                LET rpa == t[i].revenue_per_appointment
                    ta == t[i].total_appointments
                    tr == t[i].total_revenue
                IN  /\ ta = 0 => rpa.kind = "nan"
                    /\ ta # 0 => /\ rpa.kind = "num"
                                 /\ 2 * (rpa.value * ta - tr) <= ta
                                 /\ 2 * (tr - rpa.value * ta) <= ta

\* The records of hour h, and the comparison of the means of appointments of
\* two hours without rounding: mean(h1) <= mean(h2) + slack hundredths.
HourRows(h) == Group(df.rows, "hour", h)

MeanAtMost(h1, h2, slack) ==
    LET s1 == SumOver(df.rows, HourRows(h1), "appointments")
        c1 == CountOver(df.rows, HourRows(h1))
        s2 == SumOver(df.rows, HourRows(h2), "appointments")
        c2 == CountOver(df.rows, HourRows(h2))
    IN  Scale * s1 * c2 <= Scale * s2 * c1 + slack * c1 * c2

\* The best branch of a figure has the largest total_revenue of its bars.
BestBranchIsMax(f) ==
    \E i \in 1..Len(f.bars) :
        /\ f.bars[i].key = f.kpis.best_branch
        /\ \A j \in 1..Len(f.bars) : f.bars[i].total_revenue >= f.bars[j].total_revenue

\* C9 as stated: the best branch has the largest total_revenue and the peak
\* hour has the largest mean of appointments over its records.
CexC9_PeakHourTrueMean ==
    NonEmptyLoaded =>
        \A f \in FiguresOfRun :
            /\ BestBranchIsMax(f)
            /\ \A h \in {r.hour : r \in DOMAIN df.rows} : MeanAtMost(h, f.kpis.peak_hour, 0)

\* C9 amended: the best branch has the largest total_revenue; the peak hour is
\* the first hour with the largest avg_appointments of the Peak Hours table,
\* which is the mean rounded to two decimals, so that no hour has a mean more
\* than 0.01 above the peak hour's.  On the worked example they are B and 14.
ThmC9_PeakHourRoundedMean ==
    NonEmptyLoaded =>
        \A f \in FiguresOfRun :
            /\ BestBranchIsMax(f)
            /\ \E i \in 1..Len(f.line) :
                  /\ f.line[i].key = f.kpis.peak_hour
                  /\ \A j \in 1..Len(f.line) :
                        f.line[i].avg_appointments >= f.line[j].avg_appointments
                  /\ \A j \in 1..(i - 1) :
                        f.line[j].avg_appointments < f.line[i].avg_appointments
            /\ \A h \in {r.hour : r \in DOMAIN df.rows} : MeanAtMost(h, f.kpis.peak_hour, 1)
            /\ df.rows = ExampleFrame =>
                  f.kpis.best_branch = "B" /\ f.kpis.peak_hour = 14

\* A dashboard of records in which the hour with more records has the smaller
\* mean of appointments and the other hour is the peak hour.
WitC9_FewerRecordsHigherMean ==
    /\ pc = "done"
    /\ \E f \in FiguresOfRun :
          /\ f.kpis.peak_hour = 14
          /\ CountOver(df.rows, HourRows(9)) > CountOver(df.rows, HourRows(14))
          /\ CountOver(df.rows, HourRows(14)) > 0
          /\ ~MeanAtMost(14, 9, 0)
          /\ Len(f.bars) = 2

\* The load of the running process fails: the data file is absent or has no
\* date column to parse.
LoadFails == ~dataFile.exists \/ "date" \notin dataFile.columns

\* C1: a run whose load fails writes no CSV report and no dashboard image and
\* creates no output artifact, the reports directory included.
CexC1_NothingCreatedOnLoadFailure ==
    LoadFails => written = NothingWritten

ConsoleLines == [i \in DOMAIN console |-> console[i].line]

IsPrefix(a, b) == Len(a) <= Len(b) /\ \A i \in 1..Len(a) : a[i] = b[i]

\* C6: on an empty set of records every aggregate is an empty table and the
\* KPI derivation of generate_dashboard raises: the run ends in that error,
\* no table holds a key and no dashboard image is written.
ThmC6_EmptyDataset ==
    (df.loaded /\ DOMAIN df.rows = {}) =>
        /\ \A t \in BranchSummaries \cup PeakHoursTables \cup ServiceBreakdowns : t = <<>>
        /\ daily_trend(df.rows) = <<>>
        /\ written.png = {}
        /\ pc # "done"
        /\ pc = "aborted" => (error = "ValueError" /\ written.csv # {})

\* The run over the empty file has printed and exported three empty tables and
\* ended in generate_dashboard's error.
WitC6_EmptyRunAborted ==
    /\ df.loaded /\ DOMAIN df.rows = {}
    /\ pc = "aborted" /\ error = "ValueError"
    /\ Len(console) = 5
    /\ Cardinality(written.csv) = 3

\* C7 as stated: every call of generate_dashboard writes a file name no earlier
\* call wrote, so n calls leave n images.
CexC7_NeverOverwrites == Cardinality(DOMAIN png) = Len(saves)

\* C7 amended: the name is the clock second of the call, so calls in different
\* seconds write different files and a call in the second of an earlier call
\* overwrites that call's image: the images are as many as the distinct
\* seconds of the calls.
ThmC7_OneImagePerSecond ==
    /\ DOMAIN png = {saves[i] \div TicksPerSecond : i \in DOMAIN saves}
    /\ Cardinality(DOMAIN png) <= Len(saves)
    /\ (\A i, j \in DOMAIN saves :
           i # j => saves[i] \div TicksPerSecond # saves[j] \div TicksPerSecond)
          => Cardinality(DOMAIN png) = Len(saves)

\* Two runs have saved their dashboard within one clock second.
WitC7_TwoCallsOneSecond ==
    /\ Len(saves) = 2
    /\ saves[1] # saves[2]
    /\ Cardinality(DOMAIN png) = 1
    /\ pc = "done"

ExportDone == \E i \in DOMAIN console : console[i].line = "CSV reports exported"

\* C8: export_csv_reports writes branch_summary.csv, peak_hours.csv and
\* service_breakdown.csv and no other file; after an export the directory holds
\* exactly these three, each with the table of the records of that run, also
\* when an earlier run had written them; the export changes no image.
ThmC8_ExportFrame ==
    /\ [](DOMAIN csv \subseteq {"branch_summary.csv", "peak_hours.csv",
                                "service_breakdown.csv"})
    /\ [](ExportDone =>
            /\ DOMAIN csv = {"branch_summary.csv", "peak_hours.csv",
                             "service_breakdown.csv"}
            /\ written.csv = DOMAIN csv
            /\ csv["branch_summary.csv"] \in branch_summary(df.rows)
            /\ csv["peak_hours.csv"] = peak_hours(df.rows)
            /\ csv["service_breakdown.csv"] \in service_breakdown(df.rows))
    /\ [][pc = "export_csv_reports" => png' = png]_vars

\* The second run has exported other records than the first, whose image is
\* in the directory.
WitC8_SecondExportOverwrites ==
    /\ runs = 2
    /\ ExportDone
    /\ pc = "generate_dashboard"
    /\ DOMAIN png # {}
    /\ \E ts \in DOMAIN png : png[ts].line # csv["peak_hours.csv"]

\* C10 as stated: a finished run has loaded, printed all four aggregate
\* tables, exported and rendered, in this order.
CexC10_FourTablesPrinted ==
    pc = "done" =>
        ConsoleLines = <<"Loaded", "Branch Summary", "Peak Hours", "Service Breakdown",
                         "Daily Trend", "CSV reports exported", "Dashboard saved">>

\* C10 amended: a run loads, prints three aggregate tables (Branch Summary,
\* Peak Hours, Service Breakdown; Daily Trend is not printed), exports the
\* three CSV reports and then saves the image, each step after the one before:
\* reports are written only after the three tables are printed, the image only
\* after all three reports are written.
ThmC10_MainOrder ==
    LET order == <<"Loaded", "Branch Summary", "Peak Hours", "Service Breakdown",
                   "CSV reports exported", "Dashboard saved">>
    IN  /\ IsPrefix(ConsoleLines, order)
        /\ pc = "done" => ConsoleLines = order
        /\ Len(console) >= 1 => df.loaded
        /\ written.csv # {} => Len(console) >= 4
        /\ written.png # {} => (Len(console) = 6 /\ Cardinality(written.csv) = 3)

\* A run has finished with its reports and its image written.
WitC10_RunDone ==
    /\ pc = "done"
    /\ Cardinality(written.csv) = 3
    /\ written.png # {}
    /\ Len(console) = 6

====
